---- MODULE Spec2Model ----
(***************************************************************************)
(* Model of check-mps-price-telegram.py: the polling/alerting control loop *)
(* of the MPS price monitor.  One action per step of the script: the       *)
(* startup connectivity check, the startup banner, the command poll, the   *)
(* processing of one polled update (the body of the for loop), the price   *)
(* check and the final sleep of an iteration.                              *)
(*                                                                         *)
(* Texts are sequences of Unicode code points.  Floats are modelled as     *)
(* exact decimals with FracDigits fractional digits (an integer number of  *)
(* units of 10^-FracDigits); every number of the model has at most that    *)
(* many fractional digits, so parsing and comparing are exact.             *)
(***************************************************************************)
EXTENDS Integers, Sequences, FiniteSets, TLC

VARIABLES
  pc,                \* position of the script
  lower_limit,       \* line 139: None or a float
  upper_limit,       \* line 140
  alert_sent,        \* line 143
  last_update_id,    \* line 146: None or the offset of the next poll
  current_update_id, \* line 166: identifier of the update last looked at
  updates,           \* line 160: the batch returned by the last poll
  idx,               \* number of updates of the batch the for loop has consumed
  offset,            \* the offset parameter of the last getUpdates request
  iter,              \* iterations completed
  alerts,            \* number of send_telegram_alert calls
  confirms,          \* number of "Limits updated" sends
  banners,           \* number of start_message sends
  toAlerting,        \* number of changes of alert_sent from False to True
  epAlerts,          \* alert sends since the last in-range observation
  epAlertsCfg,       \* alert sends since the last in-range observation or accepted command
  applied,           \* per update identifier: configure commands applied from it
  delivered,         \* the transport's memory of the last update it handed out
  scen,              \* observations of ScenarioPrices matched since bounds (0.5, 2.0) were set
  last               \* what the last step did

vars == <<pc, lower_limit, upper_limit, alert_sent, last_update_id,
          current_update_id, updates, idx, offset, iter, alerts, confirms,
          banners, toAlerting, epAlerts, epAlertsCfg, applied, delivered, scen, last>>

---------------------------------------------------------------------------
(* Bounds *)

MaxIter == 4

MaxUpdateId == 3

MaxBatch == 2

FracDigits == 1

---------------------------------------------------------------------------
(* Python's None, for the optional numbers of the script *)
None == -1

Omitted == -2

RECURSIVE Pow10(_)
Pow10(n) == IF n = 0 THEN 1 ELSE 10 * Pow10(n - 1)

\* one unit of the model's numbers is 1/Scale
Scale == Pow10(FracDigits)

---------------------------------------------------------------------------
(* Characters and texts.  A character is its Unicode code point, ord(c); a *)
(* text is the sequence of its characters.                                 *)

\* The decimal digits of \d (line 172: a str pattern without re.ASCII) and of
\* float() (lines 174-175) are the characters of Unicode category Nd.  They
\* come in runs of ten, zero to nine; these are the code points of the zeros
\* (Unicode 14.0: 66 runs, from U+0030 of ASCII to U+1FBF0).
DigitZeros ==
  {48, 1632, 1776, 1984, 2406, 2534, 2662, 2790, 2918, 3046, 3174, 3302,
   3430, 3558, 3664, 3792, 3872, 4160, 4240, 6112, 6160, 6470, 6608,
   6784, 6800, 6992, 7088, 7232, 7248, 42528, 43216, 43264, 43472,
   43504, 43600, 44016, 65296, 66720, 68912, 69734, 69872, 69942, 70096,
   70384, 70736, 70864, 71248, 71360, 71472, 71904, 72016, 72784, 73040,
   73120, 92768, 92864, 93008, 120782, 120792, 120802, 120812, 120822,
   123200, 123632, 125264, 130032}

\* the set of all decimal digits
Digits == UNION {z..(z + 9) : z \in DigitZeros}

IsDigit(c) == c \in Digits

\* the value float() gives the digit c
DigitVal(c) == c - (CHOOSE z \in DigitZeros : c \in z..(z + 9))

\* the digits str(float) writes are the ASCII ones, from U+0030
DigitChar(n) == 48 + n

\* the dot of [\d\.] and of float(), U+002E
Dot == 46

\* whitespace of str.strip() (line 169) and of \s (line 172), both
\* str.isspace: tab, line feed, vertical tab, form feed, carriage return,
\* U+001C to U+001F, space, U+0085, U+00A0, U+1680, U+2000 to U+200A, U+2028,
\* U+2029, U+202F, U+205F and U+3000
Whitespace ==
  {9, 10, 11, 12, 13, 28, 29, 30, 31, 32, 133, 160, 5760}
    \cup 8192..8202 \cup {8232, 8233, 8239, 8287, 12288}

IsSpace(c) == c \in Whitespace

IsNumChar(c) == IsDigit(c) \/ c = Dot

RECURSIVE LStrip(_)
LStrip(s) == IF s # <<>> /\ IsSpace(Head(s)) THEN LStrip(Tail(s)) ELSE s

RECURSIVE RStrip(_)
RStrip(s) ==
  IF s # <<>> /\ IsSpace(s[Len(s)]) THEN RStrip(SubSeq(s, 1, Len(s) - 1)) ELSE s

\* str.strip()
Strip(s) == RStrip(LStrip(s))

\* length of the longest prefix of s whose characters are whitespace
RECURSIVE SpaceRun(_)
SpaceRun(s) == IF s # <<>> /\ IsSpace(Head(s)) THEN 1 + SpaceRun(Tail(s)) ELSE 0

\* length of the longest prefix of s whose characters are digits or dots
RECURSIVE NumRun(_)
NumRun(s) == IF s # <<>> /\ IsNumChar(Head(s)) THEN 1 + NumRun(Tail(s)) ELSE 0

Drop(s, n) == SubSeq(s, n + 1, Len(s))

Take(s, n) == SubSeq(s, 1, n)

\* "monitor-mps"
MonitorMps == <<109, 111, 110, 105, 116, 111, 114, 45, 109, 112, 115>>

\* "monitor-mps a b", single spaces between the words
CmdText(a, b) == MonitorMps \o <<32>> \o a \o <<32>> \o b

(* re.match(r"^monitor-mps\s+([\d\.]+)\s+([\d\.]+)$", text), line 172.  The  *)
(* classes \s and [\d\.] are disjoint, so each greedy run is the only way    *)
(* the pattern can match.  matched = FALSE is Python's match = None.         *)
ReMatch(text) ==
  LET n0 == Len(MonitorMps)
      r1 == Drop(text, n0)
      w1 == SpaceRun(r1)
      r2 == Drop(r1, w1)
      n1 == NumRun(r2)
      r3 == Drop(r2, n1)
      w2 == SpaceRun(r3)
      r4 == Drop(r3, w2)
      n2 == NumRun(r4)
      r5 == Drop(r4, n2)
      ok == /\ Len(text) >= n0
            /\ Take(text, n0) = MonitorMps
            /\ w1 >= 1 /\ n1 >= 1 /\ w2 >= 1 /\ n2 >= 1
            /\ (r5 = <<>> \/ r5 = <<10>>)
  IN  IF ok THEN [matched |-> TRUE, g1 |-> Take(r2, n1), g2 |-> Take(r4, n2)]
            ELSE [matched |-> FALSE, g1 |-> <<>>, g2 |-> <<>>]

---------------------------------------------------------------------------
(* float(s) and str(float) for strings of digits and dots *)

RECURSIVE CountDots(_)
CountDots(s) ==
  IF s = <<>> THEN 0 ELSE (IF Head(s) = Dot THEN 1 ELSE 0) + CountDots(Tail(s))

RECURSIVE DotPos(_)
DotPos(s) == IF s = <<>> \/ Head(s) = Dot THEN 1 ELSE 1 + DotPos(Tail(s))

RECURSIVE DigitsToInt(_)
DigitsToInt(s) ==
  IF s = <<>> THEN 0
  ELSE 10 * DigitsToInt(Take(s, Len(s) - 1)) + DigitVal(s[Len(s)])

\* float(s) returns a value; otherwise it raises ValueError
FloatOK(s) ==
  /\ \A i \in 1..Len(s) : IsNumChar(s[i])
  /\ CountDots(s) <= 1
  /\ Len(s) - CountDots(s) >= 1

\* the value float(s) returns, in units of 1/Scale; fractional digits past
\* the FracDigits-th are cut off
FloatVal(s) ==
  LET d    == DotPos(s)
      ip   == Take(s, d - 1)
      fp   == Drop(s, d)
  IN  (DigitsToInt(ip \o fp) * Scale) \div Pow10(Len(fp))

RECURSIVE IntToDigits(_)
IntToDigits(n) ==
  IF n < 10 THEN <<DigitChar(n)>>
  ELSE IntToDigits(n \div 10) \o <<DigitChar(n % 10)>>

RECURSIVE PadLeft(_, _)
PadLeft(s, w) == IF Len(s) >= w THEN s ELSE PadLeft(<<DigitChar(0)>> \o s, w)

RECURSIVE StripZeros(_)
StripZeros(s) ==
  IF Len(s) > 1 /\ s[Len(s)] = DigitChar(0) THEN StripZeros(Take(s, Len(s) - 1)) ELSE s

\* f"{x}" of a float x = v/Scale: shortest positional form, at least one
\* fractional digit ("1.0", "0.5")
FloatRepr(v) ==
  IntToDigits(v \div Scale) \o <<Dot>>
    \o StripZeros(PadLeft(IntToDigits(v % Scale), FracDigits))

---------------------------------------------------------------------------
(* Inputs: command texts, updates, poll results, quotes *)

\* "monitor-mps 1 2"
TextOneTwo     == CmdText(<<49>>, <<50>>)
\* "monitor-mps 0.5 2.0"
TextHalfTwo    == CmdText(<<48, Dot, 53>>, <<50, Dot, 48>>)
\* " \r\x0bmonitor-mps\t\u2003.\u0665\f\xa0\uff12.\n": whitespace of several
\* kinds around the words, a numeral ".5" with the Arabic-Indic five and a
\* numeral "2." with the fullwidth two
TextPadded     ==
  <<32, 13, 11>> \o MonitorMps \o <<9, 8195, Dot, 1637, 12, 160, 65298, Dot, 10>>
\* "monitor-mps 2 1"
TextTwoOne     == CmdText(<<50>>, <<49>>)
\* "monitor-mps abc def"
TextAbcDef     == CmdText(<<97, 98, 99>>, <<100, 101, 102>>)
\* "monitor-mps -1 2"
TextSigned     == CmdText(<<45, 49>>, <<50>>)
\* "monitor-mps 1.2.3 4"
TextTwoDots    == CmdText(<<49, Dot, 50, Dot, 51>>, <<52>>)
\* "monitor-mps 1 ."
TextLoneDot    == CmdText(<<49>>, <<Dot>>)
Texts == {TextOneTwo, TextHalfTwo, TextPadded, TextTwoOne, TextAbcDef,
          TextSigned, TextTwoDots, TextLoneDot}

\* an element of the "result" list of getUpdates: has_id is 'update_id' in upd;
\* message is "absent" ('message' not in upd), "no_text" ('text' not in
\* upd['message']) or "text"
Upd(has_id, id, message, text) ==
  [has_id |-> has_id, update_id |-> id, message |-> message, text |-> text]

NoUpdate == Upd(FALSE, None, "absent", <<>>)

Contents ==
  {<<"absent", <<>> >>, <<"no_text", <<>> >>} \cup {<<"text", t>> : t \in Texts}

UpdatesFrom(base) ==
  {Upd(TRUE, i, c[1], c[2]) : i \in base..MaxUpdateId, c \in Contents}
    \cup {Upd(FALSE, None, "text", TextOneTwo)}

\* the identifiers of a batch, in order
RECURSIVE IdsOf(_)
IdsOf(b) ==
  IF b = <<>> THEN <<>>
  ELSE (IF Head(b).has_id THEN <<Head(b).update_id>> ELSE <<>>) \o IdsOf(Tail(b))

Ascending(ids) == \A i \in 1..Len(ids) : \A j \in 1..Len(ids) : i < j => ids[i] < ids[j]

\* What the chat transport returns for getUpdates(offset): updates with
\* identifiers >= offset (from the first one when the offset is omitted), in
\* ascending order of identifier.
Batches(off) ==
  LET base == IF off = Omitted THEN 1 ELSE off
      U    == UpdatesFrom(base)
  IN  {b \in UNION {[1..n -> U] : n \in 1..MaxBatch} : Ascending(IdsOf(b))}

\* A transport that also hands out an update a second time: twice in one
\* batch, or the last accepted command again in a later poll.
RedeliveredBatches(off) ==
  {<<b[1], b[1]>> : b \in {c \in Batches(off) : Len(c) = 1}}
    \cup (IF delivered = NoUpdate THEN {} ELSE {<<delivered>>})

\* outcome of requests.get(GET_UPDATES_URL): a transport error (no response,
\* or a response with an error status, whatever its body holds), a body that
\* is not JSON, a JSON body that is no container ("not_object": null, a
\* number), a JSON object without "result", or one with a "result" list
PollOutcomes(batches) ==
  {[kind |-> "error", result |-> <<>>], [kind |-> "no_result", result |-> <<>>],
   [kind |-> "not_json", result |-> <<>>], [kind |-> "not_object", result |-> <<>>],
   [kind |-> "result", result |-> <<>>]}
    \cup {[kind |-> "error", result |-> b] : b \in {c \in batches : Len(c) = 1}}
    \cup {[kind |-> "result", result |-> b] : b \in batches}

\* quotes, in tenths of one WXDAI
QuoteTenths == {3, 4, 5, 6, 10, 20, 25}

\* outcome of router.functions.getAmountsOut(...).call(): an exception, or the
\* raw WXDAI amount, here in units of 10^18 / Scale wei
QuoteOutcomes ==
  {[ok |-> FALSE, raw |-> 0]}
    \cup {[ok |-> TRUE, raw |-> t * (Scale \div 10)] : t \in QuoteTenths}

---------------------------------------------------------------------------
(* The script's computations *)

\* lines 169-175: strip, match, convert.  kind is "none" (match is None),
\* "error" (float() raises ValueError, which nothing catches) or "configure"
Parse(raw) ==
  LET text == Strip(raw)
      m    == ReMatch(text)
  IN  IF ~m.matched THEN [kind |-> "none", lower |-> None, upper |-> None]
      ELSE IF ~FloatOK(m.g1) \/ ~FloatOK(m.g2)
        THEN [kind |-> "error", lower |-> None, upper |-> None]
        ELSE [kind |-> "configure", lower |-> FloatVal(m.g1), upper |-> FloatVal(m.g2)]

\* variant: the reset of alert_sent is forgotten
AlertAfterTextKeep(kind, sent) == sent

\* variant: the reset of alert_sent sits outside "if match"
AlertAfterTextAlways(kind, sent) == FALSE

\* variant: alert_sent is reset only when the command changes the limits
AlertAfterTextIfChanged(kind, sent) ==
  IF kind = "configure"
       /\ (lower_limit' # lower_limit \/ upper_limit' # upper_limit)
    THEN FALSE ELSE sent

\* lines 173 and 178: alert_sent is reset when, and only when, the text matched
AlertAfterText(kind, sent) == IF kind = "configure" THEN FALSE ELSE sent

\* variant: the cursor advances from the identifier carried over from the
\* update before
NextCursorStale(id) == current_update_id + 1

\* variant: the cursor is set to the identifier itself
NextCursorSame(id) == id

\* line 187
NextCursor(id) == id + 1

\* lines 120-122 and 160: params carries offset unless last_update_id is None
PollOffset(cursor) == IF cursor = None THEN Omitted ELSE cursor

\* lines 127-130: whether an exception leaves get_telegram_updates.  The
\* except clause catches RequestException only: '"result" in data' raises
\* TypeError when data is no container; response.json() raises for a body that
\* is not JSON an exception that is a RequestException from requests 2.27 on
\* and a plain ValueError before; a transport failure is a RequestException
\* except where the library lets the socket's own exception through
\* (ssl.SSLError while the body is read, with older requests).  No version is
\* pinned, so either outcome is possible.
GetTelegramUpdatesRaises(outcome) ==
  IF outcome.kind = "not_object" THEN {TRUE}
  ELSE IF outcome.kind \in {"not_json", "error"} THEN BOOLEAN
  ELSE {FALSE}

\* lines 124-133: the list returned when no exception leaves the function
GetTelegramUpdates(outcome) == IF outcome.kind = "result" THEN outcome.result ELSE <<>>

QuoteInput(q) == IF q.ok THEN "quote" ELSE "quote_error"

\* variant: a failed quote yields the price 0
GetTokenPriceZero(q) == IF q.ok THEN q.raw ELSE 0

\* lines 95-112
GetTokenPrice(q) == IF q.ok THEN q.raw ELSE None

\* variant: the price is checked whether or not limits are set
ConfiguredAlways(lower, upper) == TRUE

\* line 193
Configured(lower, upper) == lower # None /\ upper # None

\* variant: the limits themselves count as out of bounds
OutOfBoundsStrict(price, lower, upper) == price <= lower \/ price >= upper

\* line 200
OutOfBounds(price, lower, upper) == price < lower \/ price > upper

\* variant: no check of alert_sent before sending
EvaluateRepeat(price, lower, upper, sent) ==
  IF OutOfBounds(price, lower, upper)
    THEN [send |-> TRUE, alert_sent |-> TRUE]
    ELSE [send |-> FALSE, alert_sent |-> FALSE]

\* variant: alert_sent is not reset by a price within the limits
EvaluateNoReset(price, lower, upper, sent) ==
  IF OutOfBounds(price, lower, upper)
    THEN IF ~sent THEN [send |-> TRUE, alert_sent |-> TRUE]
                  ELSE [send |-> FALSE, alert_sent |-> sent]
    ELSE [send |-> FALSE, alert_sent |-> sent]

\* lines 200-209: whether send_telegram_alert is called, and the new alert_sent
Evaluate(price, lower, upper, sent) ==
  IF OutOfBounds(price, lower, upper)
    THEN IF ~sent THEN [send |-> TRUE, alert_sent |-> TRUE]
                  ELSE [send |-> FALSE, alert_sent |-> sent]
    ELSE [send |-> FALSE, alert_sent |-> FALSE]

\* lines 67-78: what send_telegram_text does: the request succeeds ("sent");
\* it fails with a RequestException, which is caught and logged ("failed"); or
\* it fails with an exception that is no RequestException (ssl.SSLError while
\* the answer's body is read, with older requests), which leaves the function
\* and ends the script at the calling line ("raised")
SendOutcomes == {"sent", "failed", "raised"}

SendOk(outcome) == outcome = "sent"

SendRaises(outcome) == outcome = "raised"

\* variant: the banner is sent inside the loop
LoopTopBanner == "banner"

\* lines 158-160: each iteration starts at the command poll
LoopTop == "poll"

\* variant: the for loop is left after its first update
AfterUpdateBreak(i, n) == "price"

\* lines 163 and 193: the for loop runs to the end of the list, then the
\* price check follows
AfterUpdate(i, n) == IF i = n THEN "price" ELSE "drain"

\* the price sequence of the scenario "bounds (0.5, 2.0); prices 1.0, 0.4,
\* 0.3, 0.6", in tenths
ScenarioTenths == <<10, 4, 3, 6>>

\* progress of that scenario: 1 once bounds (0.5, 2.0) are accepted, one more
\* for each successful observation that is the scenario's next price, 0 when
\* another price is observed
ScenAfterConfigure(lower, upper) ==
  IF lower = Scale \div 2 /\ upper = 2 * Scale THEN 1 ELSE 0

ScenAfterPrice(n, price) ==
  IF n >= 1 /\ n <= Len(ScenarioTenths) /\ price = ScenarioTenths[n] * (Scale \div 10)
    THEN n + 1 ELSE 0

\* the three states of the threshold monitor
AlertState(lower, upper, sent) ==
  IF ~Configured(lower, upper) THEN "Unconfigured"
  ELSE IF sent THEN "Alerting" ELSE "Armed"

(* outbound messages: the text of each, with its formatted numbers *)
NoMsg == [kind |-> "none", a |-> <<>>, b |-> <<>>]

\* lines 149-154
StartMessage == [kind |-> "banner", a |-> <<>>, b |-> <<>>]

\* lines 180-182
LimitsMessage(lower, upper) ==
  [kind |-> "limits_updated", a |-> FloatRepr(lower), b |-> FloatRepr(upper)]

\* line 84
AlertMessage(price) == [kind |-> "alert", a |-> FloatRepr(price), b |-> <<>>]

\* what a step did: the operation, what the outside world answered, the
\* outcome, the message it sent and whether the send succeeded, the update or
\* price it handled, and the monitor before it
Event(op, input, result, msg, ok, upd, price) ==
  [op |-> op, input |-> input, result |-> result, msg |-> msg, ok |-> ok,
   upd |-> upd,
   price |-> price,
   prior |-> AlertState(lower_limit, upper_limit, alert_sent),
   prior_lower |-> lower_limit, prior_upper |-> upper_limit,
   prior_cursor |-> last_update_id]

---------------------------------------------------------------------------
(* Initial state: lines 139-146, before the connectivity check of line 15 *)

Init ==
  /\ pc = "connect"
  /\ lower_limit = None
  /\ upper_limit = None
  /\ alert_sent = FALSE
  /\ last_update_id = None
  /\ current_update_id = None
  /\ updates = <<>>
  /\ idx = 0
  /\ offset = Omitted
  /\ iter = 0
  /\ alerts = 0
  /\ confirms = 0
  /\ banners = 0
  /\ toAlerting = 0
  /\ epAlerts = 0
  /\ epAlertsCfg = 0
  /\ applied = [i \in 1..MaxUpdateId |-> 0]
  /\ delivered = NoUpdate
  /\ scen = 0
  /\ last = Event("init", "none", "none", NoMsg, TRUE, NoUpdate, None)

\* the record of changes of alert_sent from False to True
CountTransition ==
  toAlerting' = toAlerting + (IF ~alert_sent /\ alert_sent' THEN 1 ELSE 0)

---------------------------------------------------------------------------
(* Actions *)

\* lines 13-16: web3.is_connected(), or raise
ConnectCheck ==
  /\ pc = "connect"
  /\ \E connected \in BOOLEAN :
       /\ pc' = IF connected THEN "banner" ELSE "aborted"
       /\ last' = Event("connect", IF connected THEN "connected" ELSE "unreachable",
                        IF connected THEN "connected" ELSE "raised",
                        NoMsg, TRUE, NoUpdate, None)
  /\ UNCHANGED <<lower_limit, upper_limit, alert_sent, last_update_id,
                 current_update_id, updates, idx, offset, iter, alerts, confirms,
                 banners, toAlerting, epAlerts, epAlertsCfg, applied, delivered, scen>>

\* lines 149-156: send_telegram_text(start_message)
SendBanner ==
  /\ pc = "banner"
  /\ banners' = banners + 1
  /\ \E sent \in SendOutcomes :
       /\ pc' = IF SendRaises(sent) THEN "crashed" ELSE LoopTop
       /\ last' = Event("banner", "none", "sent", StartMessage, SendOk(sent),
                        NoUpdate, None)
  /\ UNCHANGED <<lower_limit, upper_limit, alert_sent, last_update_id,
                 current_update_id, updates, idx, offset, iter, alerts, confirms,
                 toAlerting, epAlerts, epAlertsCfg, applied, delivered, scen>>

\* lines 160-162 and 188-190: one getUpdates request; a non-empty list starts
\* the for loop, an empty one sleeps a second and goes on to the price check;
\* an exception that leaves get_telegram_updates ends the script at line 160
Poll(batches) ==
  /\ pc = "poll"
  /\ iter < MaxIter
  /\ offset' = PollOffset(last_update_id)
  /\ \E outcome \in PollOutcomes(batches) :
       \E raised \in GetTelegramUpdatesRaises(outcome) :
         IF raised
           THEN /\ updates' = updates
                /\ last' = Event("poll", outcome.kind, "raised", NoMsg, TRUE,
                                 NoUpdate, None)
                /\ pc' = "crashed"
           ELSE /\ updates' = GetTelegramUpdates(outcome)
                /\ last' = Event("poll", outcome.kind,
                                 IF updates' # <<>> THEN "batch" ELSE "empty",
                                 NoMsg, TRUE, NoUpdate, None)
                /\ pc' = IF updates' # <<>> THEN "drain" ELSE "price"
  /\ idx' = 0
  /\ UNCHANGED <<lower_limit, upper_limit, alert_sent, last_update_id,
                 current_update_id, iter, alerts, confirms, banners, toAlerting,
                 epAlerts, epAlertsCfg, applied, delivered, scen>>

PollFaithful == Poll(Batches(PollOffset(last_update_id)))

PollRedelivering ==
  Poll(Batches(PollOffset(last_update_id))
         \cup RedeliveredBatches(PollOffset(last_update_id)))

\* lines 163-187: the body of the for loop, for the next update of the batch.
\* An exception of float() (lines 174-175) ends the script before anything is
\* assigned; one of the confirmation send (line 183) ends it with the limits
\* assigned and the cursor of line 187 not advanced
ProcessUpdate ==
  /\ pc = "drain"
  /\ idx < Len(updates)
  /\ LET upd    == updates[idx + 1]
         isText == upd.has_id /\ upd.message = "text"
         cmd    == IF isText THEN Parse(upd.text)
                   ELSE [kind |-> "none", lower |-> None, upper |-> None]
         result == IF ~upd.has_id THEN "no_id"
                   ELSE IF cmd.kind = "configure" THEN "configured"
                   ELSE IF cmd.kind = "error" THEN "raised"
                   ELSE "ignored"
     IN  /\ idx' = idx + 1
         /\ current_update_id' = IF upd.has_id THEN upd.update_id ELSE current_update_id
         /\ IF result = "configured"
              THEN /\ lower_limit' = cmd.lower
                   /\ upper_limit' = cmd.upper
                   /\ scen' = ScenAfterConfigure(cmd.lower, cmd.upper)
                   /\ confirms' = confirms + 1
                   /\ epAlertsCfg' = 0
                   /\ applied' = [applied EXCEPT ![upd.update_id] = @ + 1]
                   /\ delivered' = upd
                   /\ \E sent \in SendOutcomes :
                        /\ last' = Event("update", "update", result,
                                         LimitsMessage(lower_limit', upper_limit'),
                                         SendOk(sent), upd, None)
                        /\ last_update_id' = IF SendRaises(sent) THEN last_update_id
                                             ELSE NextCursor(upd.update_id)
                        /\ pc' = IF SendRaises(sent) THEN "crashed"
                                 ELSE AfterUpdate(idx', Len(updates))
              ELSE /\ UNCHANGED <<lower_limit, upper_limit, confirms,
                                  epAlertsCfg, applied, delivered, scen>>
                   /\ last' = Event("update", "update", result, NoMsg, TRUE, upd, None)
                   /\ last_update_id' = IF result = "ignored"
                                          THEN NextCursor(upd.update_id)
                                          ELSE last_update_id
                   /\ pc' = IF result = "raised" THEN "crashed"
                            ELSE AfterUpdate(idx', Len(updates))
         /\ alert_sent' = IF result = "raised" THEN alert_sent
                          ELSE AlertAfterText(cmd.kind, alert_sent)
  /\ CountTransition
  /\ UNCHANGED <<updates, offset, iter, alerts, banners, epAlerts>>

\* lines 193-211: at most one quote and one evaluation.  The polled list is
\* not read again before line 160 replaces it, so it is dropped here.  An
\* exception of the alert send ends the script at line 202, before line 203
\* assigns alert_sent.
PriceCheck ==
  /\ pc = "price"
  /\ updates' = <<>>
  /\ idx' = 0
  /\ IF Configured(lower_limit, upper_limit)
       THEN \E q \in QuoteOutcomes :
              LET price == GetTokenPrice(q)
                  ev    == Evaluate(price, lower_limit, upper_limit, alert_sent)
                  out   == OutOfBounds(price, lower_limit, upper_limit)
              IN  IF price # None
                    THEN /\ scen' = ScenAfterPrice(scen, price)
                         /\ alerts' = alerts + (IF ev.send THEN 1 ELSE 0)
                         /\ epAlerts' = IF out THEN epAlerts + (IF ev.send THEN 1 ELSE 0)
                                        ELSE 0
                         /\ epAlertsCfg' =
                              IF out THEN epAlertsCfg + (IF ev.send THEN 1 ELSE 0)
                              ELSE 0
                         /\ \E sent \in (IF ev.send THEN SendOutcomes ELSE {"sent"}) :
                              /\ alert_sent' = IF SendRaises(sent) THEN alert_sent
                                               ELSE ev.alert_sent
                              /\ pc' = IF SendRaises(sent) THEN "crashed" ELSE "sleep"
                              /\ last' = Event("price", QuoteInput(q),
                                               IF ev.send THEN "alert"
                                               ELSE IF out THEN "suppressed"
                                               ELSE "in_range",
                                               IF ev.send THEN AlertMessage(price)
                                               ELSE NoMsg,
                                               SendOk(sent), NoUpdate, price)
                    ELSE /\ UNCHANGED <<alert_sent, alerts, epAlerts, epAlertsCfg, scen>>
                         /\ pc' = "sleep"
                         /\ last' = Event("price", QuoteInput(q), "skipped", NoMsg,
                                          TRUE, NoUpdate, None)
       ELSE /\ UNCHANGED <<alert_sent, alerts, epAlerts, epAlertsCfg, scen>>
            /\ pc' = "sleep"
            /\ last' = Event("price", "none", "unconfigured", NoMsg, TRUE, NoUpdate, None)
  /\ CountTransition
  /\ UNCHANGED <<lower_limit, upper_limit, last_update_id, current_update_id,
                 offset, iter, confirms, banners, applied, delivered>>

\* line 214: time.sleep(10), then the next iteration
Sleep ==
  /\ pc = "sleep"
  /\ pc' = LoopTop
  /\ iter' = iter + 1
  /\ last' = Event("sleep", "none", "none", NoMsg, TRUE, NoUpdate, None)
  /\ UNCHANGED <<lower_limit, upper_limit, alert_sent, last_update_id,
                 current_update_id, updates, idx, offset, alerts, confirms,
                 banners, toAlerting, epAlerts, epAlertsCfg, applied, delivered, scen>>

Next ==
  \/ ConnectCheck
  \/ SendBanner
  \/ PollFaithful
  \/ ProcessUpdate
  \/ PriceCheck
  \/ Sleep

Spec == Init /\ [][Next]_vars

NextRedeliver ==
  \/ ConnectCheck
  \/ SendBanner
  \/ PollRedelivering
  \/ ProcessUpdate
  \/ PriceCheck
  \/ Sleep

\* the same script against a transport that may hand out an update twice
SpecRedeliver == Init /\ [][NextRedeliver]_vars

---------------------------------------------------------------------------
(* Properties *)

\* length of the longest prefix of s that holds no whitespace
RECURSIVE WordRun(_)
WordRun(s) == IF s # <<>> /\ ~IsSpace(Head(s)) THEN 1 + WordRun(Tail(s)) ELSE 0

\* the words of a text: its maximal runs of characters that are not whitespace
RECURSIVE Words(_)
Words(s) ==
  IF s = <<>> THEN <<>>
  ELSE IF IsSpace(Head(s)) THEN Words(Tail(s))
  ELSE LET n == WordRun(s)
       IN  <<Take(s, n)>> \o Words(Drop(s, n))

\* a word of digits and dots
IsNumeral(w) == w # <<>> /\ \A i \in 1..Len(w) : IsDigit(w[i]) \/ w[i] = Dot

\* a numeral that is a decimal number: at most one dot, at least one digit
IsDecimal(w) ==
  /\ IsNumeral(w)
  /\ \A i \in 1..Len(w) : \A j \in 1..Len(w) : (w[i] = Dot /\ w[j] = Dot) => i = j
  /\ \E i \in 1..Len(w) : IsDigit(w[i])

\* the text has the shape of a command: the word monitor-mps and two numerals
IsCommandShape(text) ==
  LET w == Words(text)
  IN  Len(w) = 3 /\ w[1] = MonitorMps /\ IsNumeral(w[2]) /\ IsNumeral(w[3])

\* the text is a command "monitor-mps <lower> <upper>" of two decimal numbers
IsWellFormed(text) ==
  LET w == Words(text)
  IN  Len(w) = 3 /\ w[1] = MonitorMps /\ IsDecimal(w[2]) /\ IsDecimal(w[3])

\* the bounds a well-formed command names
BoundsOf(text) ==
  LET w == Words(text)
  IN  [lower |-> FloatVal(w[2]), upper |-> FloatVal(w[3])]

\* texts of the model that are commands, with the numbers they name written
\* out
WellFormedCommands ==
  {[text |-> TextOneTwo,  lower |-> 1 * Scale,   upper |-> 2 * Scale],
   [text |-> TextHalfTwo, lower |-> Scale \div 2, upper |-> 2 * Scale],
   [text |-> TextPadded,  lower |-> Scale \div 2, upper |-> 2 * Scale],
   [text |-> TextTwoOne,  lower |-> 2 * Scale,   upper |-> 1 * Scale]}

\* the last step handled an update that carries an identifier and a text
HandledText == last.op = "update" /\ last.upd.has_id /\ last.upd.message = "text"

\* the step being taken handles an update that carries an identifier and a text
HandlingText ==
  /\ pc = "drain"
  /\ idx < Len(updates)
  /\ updates[idx + 1].has_id
  /\ updates[idx + 1].message = "text"
  /\ idx' = idx + 1

\* C1 (as stated): at most one alert is sent per breach episode, an episode
\* being a maximal run of successful observations outside the bounds of the
\* time, accepted configuration commands included.
C1_OneAlertPerRunOfBreaches == epAlerts <= 1

\* C1 (amended): at most one alert is sent per maximal run of successful
\* out-of-bounds observations during which no configuration command is accepted.
C1_OneAlertPerEpisode == epAlertsCfg <= 1

\* an out-of-bounds observation in an episode whose alert is already out
C1_Witness ==
  /\ last.op = "price"
  /\ last.result = "suppressed"
  /\ epAlertsCfg = 1
  /\ alerts = 1

\* C2: the number of alert send calls equals the number of changes of
\* alert_sent from False to True; a send and such a change only ever happen
\* together; an out-of-bounds evaluation while Alerting sends nothing.
C2_AlertsEqualTransitions ==
  /\ [](alerts = toAlerting)
  /\ [][/\ (alerts' # alerts) <=> (~alert_sent /\ alert_sent')
        /\ alerts' \in {alerts, alerts + 1}
        /\ (/\ pc = "price"
            /\ alert_sent
            /\ last'.input = "quote"
            /\ OutOfBounds(last'.price, lower_limit, upper_limit))
             => (alerts' = alerts /\ last'.msg = NoMsg /\ alert_sent')]_vars

\* C3: no update text halts the loop: handling an update whose text is not a
\* well-formed command completes, advances the cursor past the update's
\* identifier, and leaves the loop running.
C3_MalformedTextNeverHalts ==
  (HandledText /\ ~IsWellFormed(last.upd.text))
    => /\ pc \in {"drain", "price"}
       /\ last_update_id = last.upd.update_id + 1

\* C4: after a well-formed command is handled, whatever the state before, the
\* monitor is Armed with exactly the command's bounds, and exactly one
\* confirmation, echoing the two numbers, has been sent.
C4_ConfigureArms ==
  /\ [](\A w \in WellFormedCommands :
          (HandledText /\ last.upd.text = w.text)
            => /\ lower_limit = w.lower
               /\ upper_limit = w.upper
               /\ AlertState(lower_limit, upper_limit, alert_sent) = "Armed"
               /\ last.msg.kind = "limits_updated"
               /\ FloatOK(last.msg.a) /\ FloatVal(last.msg.a) = w.lower
               /\ FloatOK(last.msg.b) /\ FloatVal(last.msg.b) = w.upper)
  /\ [][(HandlingText /\ IsWellFormed(updates[idx + 1].text))
          => confirms' = confirms + 1]_vars

\* a command handled while Alerting, replacing other bounds
C4_Witness ==
  /\ HandledText
  /\ IsWellFormed(last.upd.text)
  /\ last.prior = "Alerting"
  /\ last.prior_lower # lower_limit
  /\ ~alert_sent

\* C5: handling a text that is not a well-formed command leaves the bounds and
\* the alert state as they were and sends no confirmation; a text the pattern
\* does not match advances the cursor and changes nothing else.
C5_NonMatchingTextChangesNothing ==
  [][(HandlingText /\ ~IsWellFormed(updates[idx + 1].text))
       => /\ UNCHANGED <<lower_limit, upper_limit, alert_sent, confirms, alerts>>
          /\ last'.msg = NoMsg
          /\ (~IsCommandShape(updates[idx + 1].text)
                => /\ last_update_id' = updates[idx + 1].update_id + 1
                   /\ pc' \in {"drain", "price"})]_vars

\* a non-matching text handled while Alerting
C5_Witness ==
  /\ HandledText
  /\ last.upd.text = TextAbcDef
  /\ last.prior = "Alerting"
  /\ alert_sent
  /\ last_update_id = last.upd.update_id + 1

\* the last identifier of a sequence of identifiers, None when there is none
LastId(ids) == IF ids = <<>> THEN None ELSE ids[Len(ids)]

\* C6: when the for loop has handled a batch with identifiers i1 < ... < ik,
\* the cursor is ik + 1, whatever the updates carried, and the next poll
\* supplies that cursor as offset; each update with an identifier moves the
\* cursor to its own identifier + 1.
C6_CursorPastBatch ==
  /\ []((pc = "price" /\ last.op = "update" /\ IdsOf(updates) # <<>>)
          => last_update_id = LastId(IdsOf(updates)) + 1)
  /\ [][/\ (pc = "drain" /\ idx < Len(updates) /\ updates[idx + 1].has_id
              /\ pc' # "crashed")
             => last_update_id' = updates[idx + 1].update_id + 1
        /\ (pc = "poll" /\ pc' # "poll")
             => offset' = IF last_update_id = None THEN Omitted ELSE last_update_id
        /\ (pc \in {"price", "sleep"}) => last_update_id' = last_update_id]_vars

\* a batch of two handled to its end: a command, then an update with no message
C6_Witness ==
  /\ pc = "price"
  /\ last.op = "update"
  /\ Len(updates) = 2
  /\ Len(IdsOf(updates)) = 2
  /\ updates[1].message = "text" /\ IsWellFormed(updates[1].text)
  /\ updates[2].message = "absent"
  /\ last_update_id = updates[2].update_id + 1

\* C7: a configure command carried by an update is applied once, also when the
\* transport hands the update's identifier out a second time.
C7_AppliedAtMostOnce == \A i \in 1..MaxUpdateId : applied[i] <= 1

\* C8: the cursor is absent until an update with an identifier has been seen,
\* never decreases, and every poll supplies the last identifier seen + 1 as
\* offset (and no offset while none has been seen).
C8_CursorMonotonic ==
  /\ [](current_update_id = None => last_update_id = None)
  /\ [][/\ last_update_id' >= last_update_id
        /\ (pc = "poll" /\ pc' # "poll")
             => offset' = IF current_update_id = None THEN Omitted
                          ELSE current_update_id + 1]_vars

\* a poll made after updates 1 and 2 were seen
C8_Witness ==
  /\ last.op = "poll"
  /\ current_update_id = 2
  /\ offset = 3
  /\ iter >= 1

\* C9: when the quote fails, nothing is evaluated and nothing is sent; bounds,
\* alert state and cursor stay as they are, and the script goes on to the sleep.
C9_QuoteFailureSkipsCheck ==
  [][(pc = "price" /\ last'.op = "price" /\ last'.input = "quote_error")
       => /\ UNCHANGED <<lower_limit, upper_limit, alert_sent, last_update_id,
                         alerts, confirms, toAlerting>>
          /\ last'.msg = NoMsg
          /\ last'.price = None
          /\ pc' = "sleep"]_vars

\* a failed quote while Alerting
C9_Witness ==
  /\ last.op = "price"
  /\ last.input = "quote_error"
  /\ last.prior = "Alerting"
  /\ alert_sent
  /\ pc = "sleep"

\* C10: when a command poll fails at the transport, the poll yields the empty
\* list: cursor, bounds and alert state stay as they are, nothing is sent, and
\* the iteration goes on to the price check as after an empty poll.
C10_PollFailureIsEmptyPoll ==
  [][(pc = "poll" /\ last'.op = "poll" /\ last'.input = "error")
       => /\ updates' = <<>>
          /\ UNCHANGED <<lower_limit, upper_limit, alert_sent, last_update_id,
                         current_update_id, alerts, confirms>>
          /\ last'.msg = NoMsg
          /\ pc' = "price"]_vars

\* the step being taken is a price check that observes a price
Observing == pc = "price" /\ last'.op = "price" /\ last'.input = "quote"

\* C11: while no configuration command has been accepted, the price check
\* requests no quote, evaluates nothing and sends no alert, in every iteration;
\* the monitor leaves Unconfigured only when a configure command is accepted.
C11_UnconfiguredIsSilent ==
  /\ [](AlertState(lower_limit, upper_limit, alert_sent) = "Unconfigured"
          => (alerts = 0 /\ ~alert_sent /\ confirms = 0))
  /\ [][/\ (pc = "price" /\ pc' # "price" /\ lower_limit = None)
             => /\ last'.input = "none"
                /\ last'.price = None
                /\ last'.msg = NoMsg
                /\ UNCHANGED <<lower_limit, upper_limit, alert_sent, alerts>>
        /\ (lower_limit = None /\ lower_limit' # None)
             => /\ HandlingText
                /\ IsWellFormed(updates[idx + 1].text)
                /\ confirms' = confirms + 1]_vars

\* a price check of the third iteration, after updates that set no limits
C11_Witness ==
  /\ last.op = "price"
  /\ last.prior = "Unconfigured"
  /\ lower_limit = None /\ upper_limit = None
  /\ iter = 2
  /\ last_update_id # None

\* C12: an observed price within the bounds while Alerting returns the monitor
\* to Armed and sends nothing; an out-of-bounds observation while Armed sends an
\* alert.  With bounds (0.5, 2.0) and observed prices 1.0, 0.4, 0.3, 0.6 exactly
\* one alert is sent, at 0.4, and the monitor ends Armed.
C12_ReturnToArmedIsSilent ==
  [][/\ (Observing /\ alert_sent
           /\ last'.price >= lower_limit /\ last'.price <= upper_limit)
          => /\ ~alert_sent'
             /\ last'.msg = NoMsg
             /\ UNCHANGED <<alerts, confirms, banners>>
     /\ (Observing /\ ~alert_sent
           /\ (last'.price < lower_limit \/ last'.price > upper_limit))
          => /\ alerts' = alerts + 1
             /\ last'.msg.kind = "alert"
     /\ (scen = 1 /\ scen' = 2) => (alerts' = alerts /\ ~alert_sent')
     /\ (scen = 2 /\ scen' = 3)
          => /\ alerts' = alerts + 1
             /\ FloatVal(last'.msg.a) = 4 * (Scale \div 10)
     /\ (scen = 3 /\ scen' = 4) => (alerts' = alerts /\ alert_sent')
     /\ (scen = 4 /\ scen' = 5)
          => /\ alerts' = alerts
             /\ last'.msg = NoMsg
             /\ AlertState(lower_limit', upper_limit', alert_sent') = "Armed"
     /\ (scen >= 1 /\ scen' = scen) => alerts' = alerts]_vars

\* the scenario observed to its end, its one alert the only one of the run
C12_Witness ==
  /\ scen = 5
  /\ lower_limit = Scale \div 2 /\ upper_limit = 2 * Scale
  /\ last.price = 6 * (Scale \div 10)
  /\ last.prior = "Alerting"
  /\ ~alert_sent
  /\ alerts = 1

\* C13: the process terminates only through a failed startup connectivity
\* check, and then before the banner, before any poll and before any quote;
\* once the loop is entered nothing stops it.  (An exception that leaves
\* get_telegram_updates, and the float() of a matched text, do stop it.)
C13_OnlyStartupCheckTerminates ==
  /\ pc \in {"aborted", "crashed"}
       => /\ pc = "aborted"
          /\ last.op = "connect"
          /\ banners = 0
          /\ offset = Omitted
          /\ iter = 0
  /\ banners >= 1 => pc \in {"poll", "drain", "price", "sleep"}

\* C14: the startup banner is sent exactly once, after the connectivity check
\* and before the first poll and the first quote, and never again.
C14_BannerOnce ==
  /\ [](banners <= 1)
  /\ [](pc \in {"connect", "banner", "aborted"}
          => (banners = 0 /\ offset = Omitted /\ iter = 0
                /\ last.op \in {"init", "connect"}))
  /\ [](last.op \in {"poll", "update", "price", "sleep"} => banners = 1)
  /\ [][/\ (banners' # banners)
             => /\ banners' = 1
                /\ last.op = "connect"
                /\ last'.msg = StartMessage
                /\ pc' \in {"poll", "crashed"}
        /\ (last'.op \in {"poll", "price"}) => (banners = 1 /\ banners' = 1)]_vars

\* the last iteration's sleep, the banner still the only one
C14_Witness ==
  /\ last.op = "sleep"
  /\ iter = MaxIter
  /\ banners = 1

\* the last accepted command of a batch, as a set: empty when the batch holds none
RECURSIVE LastCommand(_)
LastCommand(b) ==
  IF b = <<>> THEN {}
  ELSE LET u == b[Len(b)]
       IN  IF u.has_id /\ u.message = "text" /\ IsWellFormed(u.text)
             THEN {BoundsOf(u.text)}
             ELSE LastCommand(SubSeq(b, 1, Len(b) - 1))

\* C15: an iteration polls, handles the polled updates one by one in the
\* order of the list, then makes at most one quote and evaluation, then
\* sleeps; the price check that follows a batch starts Armed with the
\* bounds of the batch's last accepted command, and every price check sends
\* an alert exactly when the monitor is not Alerting and the quoted price is
\* outside the bounds of the time.
C15_PhasesInOrder ==
  /\ []((pc = "price" /\ last.op = "update")
          => \A w \in LastCommand(updates) :
               /\ lower_limit = w.lower
               /\ upper_limit = w.upper
               /\ AlertState(lower_limit, upper_limit, alert_sent) = "Armed")
  /\ [][/\ pc = "poll"
             => /\ pc' \in {"drain", "price", "crashed"}
                /\ (pc' = "price") <=> (updates' = <<>> /\ pc' # "crashed")
                /\ idx' = 0
        /\ pc = "drain"
             => /\ idx' = idx + 1
                /\ updates' = updates
                /\ last'.upd = updates[idx + 1]
                /\ pc' \in {"drain", "price", "crashed"}
                /\ (pc' = "price") => (idx' = Len(updates))
                /\ (pc' = "drain") => (idx' < Len(updates))
        /\ pc = "price"
             => /\ pc' \in {"sleep", "crashed"}
                /\ UNCHANGED <<lower_limit, upper_limit, last_update_id, confirms>>
                /\ last'.input = "quote"
                     => ((alerts' = alerts + 1)
                           <=> /\ ~alert_sent
                               /\ \/ last'.price < lower_limit
                                  \/ last'.price > upper_limit)
        /\ pc = "sleep" => (pc' = "poll" /\ iter' = iter + 1)
        /\ (last'.input \in {"quote", "quote_error"}) => pc = "price"]_vars

\* a price check after a batch of two commands: the alert is decided by the
\* second command's bounds, not the first's
C15_Witness ==
  /\ last.op = "price"
  /\ last.result = "alert"
  /\ lower_limit = Scale \div 2
  /\ last.price = 20 * (Scale \div 10)  + Scale \div 2
  /\ delivered.text = TextHalfTwo
  /\ epAlerts = 1
  /\ iter = 0
  /\ applied[1] = 1 /\ applied[2] = 1

\* C16: a failed send is not retried.  After an alert send that failed the
\* monitor is Alerting, and no out-of-bounds observation while Alerting sends
\* anything; after a confirmation send that failed the new bounds are in
\* force, and a confirmation is sent only while a command is handled; no step
\* makes more than one send.
C16_NoRetry ==
  /\ []((last.msg.kind = "alert" /\ ~last.ok)
          => AlertState(lower_limit, upper_limit, alert_sent) = "Alerting")
  /\ []((last.msg.kind = "limits_updated" /\ ~last.ok)
          => /\ lower_limit = FloatVal(last.msg.a)
             /\ upper_limit = FloatVal(last.msg.b)
             /\ AlertState(lower_limit, upper_limit, alert_sent) = "Armed")
  /\ [][/\ (Observing /\ alert_sent
              /\ (last'.price < lower_limit \/ last'.price > upper_limit))
             => (alerts' = alerts /\ last'.msg = NoMsg /\ alert_sent')
        /\ (alerts' # alerts) => (Observing /\ ~alert_sent)
        /\ (confirms' # confirms)
             => (HandlingText /\ IsWellFormed(updates[idx + 1].text))
        /\ alerts' + confirms' + banners' <= alerts + confirms + banners + 1]_vars

\* C17: the configured range is the closed interval [lower, upper]: a price
\* equal to a bound is within bounds (no alert from Armed, back to Armed from
\* Alerting); only price < lower or price > upper is a breach.
C17_ClosedInterval ==
  [][Observing
       => /\ (last'.price >= lower_limit /\ last'.price <= upper_limit)
               => /\ ~alert_sent'
                  /\ alerts' = alerts
                  /\ last'.msg = NoMsg
          /\ (last'.price < lower_limit \/ last'.price > upper_limit)
               => /\ alert_sent => alert_sent'
                  /\ (alerts' = alerts + 1) <=> ~alert_sent
                  /\ (alerts' = alerts) <=> alert_sent]_vars

\* a price equal to the upper bound, observed while Alerting
C17_Witness ==
  /\ last.op = "price"
  /\ last.input = "quote"
  /\ last.price = upper_limit
  /\ lower_limit < upper_limit
  /\ last.prior = "Alerting"
  /\ ~alert_sent
  /\ last.msg = NoMsg

\* C18: a well-formed command applied a second time in succession leaves
\* bounds and alert state as the first application left them, and an accepted
\* command always leaves the monitor Armed, whatever the bounds.
C18_ReconfigureIdempotent ==
  /\ []((/\ HandledText
         /\ last.result = "configured"
         /\ idx >= 2
         /\ updates[idx - 1].has_id
         /\ updates[idx - 1].message = "text"
         /\ updates[idx - 1].text = last.upd.text)
          => /\ lower_limit = last.prior_lower
             /\ upper_limit = last.prior_upper
             /\ last.prior = "Armed"
             /\ AlertState(lower_limit, upper_limit, alert_sent) = "Armed")
  /\ [][\A w \in WellFormedCommands :
          (HandlingText /\ updates[idx + 1].text = w.text)
            => /\ ~alert_sent'
               /\ (lower_limit = w.lower /\ upper_limit = w.upper /\ ~alert_sent)
                    => UNCHANGED <<lower_limit, upper_limit, alert_sent>>]_vars

\* the same command handled twice in one batch
C18_Witness ==
  /\ HandledText
  /\ last.result = "configured"
  /\ idx = 2
  /\ updates[1].has_id
  /\ updates[1].message = "text"
  /\ updates[1].text = last.upd.text
  /\ lower_limit = last.prior_lower
  /\ ~alert_sent

\* C19: a command with lower > upper is accepted like any other; from then on
\* every observed price is a breach: the first sends an alert, and the monitor
\* stays Alerting, sending nothing more, until another command is accepted.
C19_EmptyRangeAlwaysBreaches ==
  /\ []((HandledText /\ last.upd.text = TextTwoOne)
          => /\ lower_limit = 2 * Scale
             /\ upper_limit = 1 * Scale
             /\ AlertState(lower_limit, upper_limit, alert_sent) = "Armed"
             /\ last.msg.kind = "limits_updated")
  /\ [][/\ (Observing /\ lower_limit # None /\ lower_limit > upper_limit)
             => /\ alert_sent'
                /\ (alerts' = alerts + 1) <=> ~alert_sent
                /\ alert_sent => (alerts' = alerts /\ last'.msg = NoMsg)
        /\ (lower_limit > upper_limit /\ alert_sent /\ ~alert_sent')
             => (HandlingText /\ IsWellFormed(updates[idx + 1].text))]_vars

\* C20: the two bounds are both unset or both set; once set they are never
\* unset and they change only when a configure command is accepted; the alert
\* flag is set only while both are set.
C20_BoundsSetTogether ==
  /\ []((lower_limit = None) <=> (upper_limit = None))
  /\ [](alert_sent => (lower_limit # None /\ upper_limit # None))
  /\ [][/\ lower_limit # None => lower_limit' # None
        /\ upper_limit # None => upper_limit' # None
        /\ (lower_limit' # lower_limit \/ upper_limit' # upper_limit)
             => /\ HandlingText
                /\ IsWellFormed(updates[idx + 1].text)
                /\ confirms' = confirms + 1
        /\ (last'.op \in {"poll", "price", "sleep"})
             => UNCHANGED <<lower_limit, upper_limit>>]_vars

\* bounds replaced by other bounds while Armed, after a price was evaluated,
\* by the command written with digits and whitespace outside ASCII
C20_Witness ==
  /\ HandledText
  /\ last.upd.text = TextPadded
  /\ last.result = "configured"
  /\ last.prior = "Armed"
  /\ last.prior_lower # None
  /\ last.prior_lower # lower_limit
  /\ iter >= 1

====
